---------------------------- MODULE Spec2Model ----------------------------
(***************************************************************************)
(* Atomic cross-chain swap orchestrator of chainsquad/swapchain            *)
(* (src/src/pkg/accs/accs.ts): ACCS.run, ACCS.parseUserInput and the four  *)
(* flows proposeBTSForBTC, proposeBTCForBTS, takeBTSForBTC, takeBTCForBTS, *)
(* run by a proposer "P" and an accepter "A" against one Bitcoin HTLC and  *)
(* one Bitshares HTLC.                                                     *)
(*                                                                         *)
(* Every `await` of the source is one action.  The synchronous code        *)
(* between two awaits (assignments, loop tests, throws) belongs to the     *)
(* action of the await that precedes it.  A chain-adapter call answers     *)
(* what the chain holds, or is lost to a transport failure and rejects.    *)
(*                                                                         *)
(* Time is kept by count-down timers (the sleeps of the flows and the      *)
(* remaining life of the Bitshares HTLC).  A party calls run together     *)
(* with its counterparty or later (StartMoment); once running, the steps   *)
(* of its flow other than the sleeps take no time.  Bitcoin blocks arrive  *)
(* independently of the clock.                                             *)
(***************************************************************************)
EXTENDS Integers, Sequences, FiniteSets, TLC

(***************************** bounds **************************************)
\* Largest value Timer.toBTS() hands to parseUserInput (seconds).
MaxTimelockBTS == 15
\* Largest fee rate (sat/vB) the fee estimator answers.
MaxFeeRate == 2
\* Height of the Bitcoin chain when the swap starts.
StartHeight == 1
\* Blocks that may still arrive after the Bitcoin HTLC's refund horizon.
ExtraBlocks == 1
\* Chain-adapter calls that may be lost to a transport failure during a swap.
MaxFaults == 1
\* Polls left of the counterparty's wait when a party starts late.
LatePolls == 2

(************************* program constants *******************************)
\* new Timer(6, ...): target confirmation horizon in Bitcoin blocks.
TimerBlocks == 6
\* config.checkAPIInterval
CheckAPIInterval == 4
\* takeBTSForBTC: let timeToWait = 300
WaitBTS == 300
\* takeBTCForBTS: let timeToWait = 1800
WaitBTC == 1800
\* takeBTCForBTS: setTimeout(resolve, 1_000) in the second loop, in seconds
PreimagePollSleep == 1
\* Math.round(fields.amountToSend * 10e7)
SatoshiPerBTC == 100000000
\* Math.round(fields.amountToSend * 10e4)
MiniPerBTS == 100000
\* vsize of the HTLC redeem transaction used by calculateFee
VSize == 140

Parties == {"P", "A"}
Other(p) == IF p = "P" THEN "A" ELSE "P"

\* Two answers of Timer.toBTS(), far enough apart to stay apart when halved.
TimelockBTSValues == {MaxTimelockBTS - 2, MaxTimelockBTS}
FeeRates == 1..MaxFeeRate

(************************** JavaScript values ******************************)
\* number | undefined, number | null, NaN: <<>> is the missing value.
None == <<>>
Some(x) == <<x>>

\* Math.round(n / d) for n >= 0, d > 0
MathRound(n, d) == (2 * n + d) \div (2 * d)

\* a < b where b may be NaN: every comparison with NaN is false
LessThan(a, b) == IF b = None THEN FALSE ELSE a < b[1]

\* a + n where a may be undefined: undefined + n is NaN
Plus(a, n) == IF a = None THEN None ELSE Some(a[1] + n)

Min(S) == CHOOSE x \in S : \A y \in S : x <= y

(****************************** Secret *************************************)
\* SHA256 as a collision-free digest: a tagged copy of its argument.
SHA256(preimage) == <<"sha256", preimage>>

\* The proposer's secret (Secret.random()) and the accepter's hash-only secret.
ProposerSecret == [preimage |-> "preimage", hash |-> SHA256("preimage")]
AccepterSecret == [preimage |-> "", hash |-> SHA256("preimage")]

(******************************* Timer *************************************)
toBTC == TimerBlocks

(**************************** BitcoinHTLC **********************************)
\* getP2WSH(hash, sequence) of a BitcoinHTLC built with (sender, receiver):
\* the address commits to the whole redeem script.
getP2WSH(hash, sequence, sender, receiver) ==
    [hash |-> hash, sequence |-> sequence, sender |-> sender, receiver |-> receiver]

\* calculateFee(): ceil(V * feeRate)
calculateFee(rate) == VSize * rate

VARIABLES
    fields,     \* ACCSFields given to run, per party
    timer,      \* timer.toBTS() of the Timer parseUserInput built, per party
    websocket,  \* the connection of BitsharesAPI.getInstance, per party
    config,     \* ACCSConfig built by parseUserInput, per party
    pc,         \* the await each run is suspended at
    loc,        \* local variables of the running flow, per party
    err,        \* the error a run ended with
    sleepLeft,  \* seconds left of the current setTimeout, per party
    btc,        \* the Bitcoin HTLC (P2WSH output) on the Bitcoin chain
    bts,        \* the Bitshares HTLC on the Bitshares chain
    height,     \* height of the Bitcoin chain
    faults      \* chain-adapter calls lost to a transport failure so far

vars == <<fields, timer, websocket, config, pc, loc, err, sleepLeft, btc, bts, height, faults>>

NoConfig ==
    [mode |-> "", type |-> "", bitsharesAccountID |-> "",
     counterpartyBitsharesAccountID |-> "", amountBTSMini |-> 0,
     amountSatoshi |-> 0, keyPairCompressedBTC |-> "",
     counterpartyKeyPairCompressedBTC |-> "", timelockBTC |-> 0,
     timelockBTS |-> 0, secret |-> [preimage |-> "", hash |-> <<>>],
     checkAPIInterval |-> 0]

NoLocals ==
    [flow |-> "", refundHex |-> None, fundingTxBlockHeight |-> None,
     success |-> FALSE, maxBlockHeight |-> None, currentBlockHeight |-> 0,
     timeToWait |-> 0, p2wsh |-> None, txID |-> None, value |-> None,
     id |-> "", preimage |-> "", feesMax |-> None,
     exhausted |-> FALSE, pushed |-> FALSE, refundTXId |-> None]

NoError == [kind |-> "", at |-> ""]

NoBTC ==
    [state |-> "none", address |-> None, value |-> 0, fundingHeight |-> None,
     preimage |-> ""]

NoBTS ==
    [state |-> "none", from |-> "", to |-> "", amount |-> 0, hash |-> <<>>,
     time |-> 0, ttl |-> 0, preimage |-> ""]

\* The raw user input of the two parties of one swap: the proposer gives
\* `give`, the accepter gives the other currency, amounts mirrored.
\* currencyToGive is a string (line 29): "ETH" is a value run does not support.
Fields(p, give, key) ==
    [mode |-> IF p = "P" THEN "proposer" ELSE "accepter",
     bitcoinPrivateKey |-> key,
     currencyToGive |-> IF p = "P" THEN give
                        ELSE IF give = "BTC" THEN "BTS" ELSE "BTC",
     amountToSend |-> IF (p = "P") = (give = "BTC") THEN 1 ELSE 2,
     amountToReceive |-> IF (p = "P") = (give = "BTC") THEN 2 ELSE 1,
     secret |-> IF p = "P" THEN ProposerSecret ELSE AccepterSecret]

Init ==
    /\ \E give \in {"BTC", "BTS", "ETH"}, key \in [Parties -> {"WIF", "malformed"}] :
        fields = [p \in Parties |-> Fields(p, give, key[p])]
    /\ timer = [p \in Parties |-> 0]
    /\ websocket = [p \in Parties |-> "none"]
    /\ config = [p \in Parties |-> NoConfig]
    /\ pc = [p \in Parties |-> "run"]
    /\ loc = [p \in Parties |-> NoLocals]
    /\ err = [p \in Parties |-> NoError]
    /\ sleepLeft = [p \in Parties |-> 0]
    /\ btc = NoBTC
    /\ bts = NoBTS
    /\ height = StartHeight
    /\ faults = 0

(***************************** helpers *************************************)
Goto(p, label) == pc' = [pc EXCEPT ![p] = label]

\* throw: the run ends with the error
Throw(p, kind) ==
    /\ pc' = [pc EXCEPT ![p] = "error"]
    /\ err' = [err EXCEPT ![p] = [kind |-> kind, at |-> pc[p]]]

\* A chain-adapter call rejects because the endpoint cannot be reached.
Fault == faults < MaxFaults /\ faults' = faults + 1
NoFault == UNCHANGED faults

\* await new Promise((resolve) => setTimeout(resolve, seconds * 1_000))
Sleep(p, label, seconds) ==
    /\ pc' = [pc EXCEPT ![p] = label]
    /\ sleepLeft' = [sleepLeft EXCEPT ![p] = seconds]

(************************** ACCS.parseUserInput ****************************)
\* The moment a party starts its run is an input: together with the
\* counterparty, or while the counterparty is in one of the last LatePolls
\* polls of its wait for the first HTLC, or at any moment outside that wait.
WaitLabels ==
    {"takeBTSForBTC_getID", "takeBTSForBTC_sleep1",
     "takeBTCForBTS_getValue", "takeBTCForBTS_sleep1"}

StartMoment(p) ==
    LET q == Other(p) IN
    pc[q] \in WaitLabels =>
        \/ loc[q].timeToWait \in {WaitBTS, WaitBTC}
        \/ loc[q].timeToWait <= LatePolls * CheckAPIInterval

\* lines 215-250: the config built from the fields and timer.toBTS() = t
ParsedConfig(p, t) ==
    [mode |-> fields[p].mode,
     type |-> fields[p].currencyToGive,
     bitsharesAccountID |-> p,
     counterpartyBitsharesAccountID |-> Other(p),
     amountBTSMini |->
        IF fields[p].currencyToGive = "BTC"
        THEN fields[p].amountToReceive * MiniPerBTS
        ELSE fields[p].amountToSend * MiniPerBTS,
     amountSatoshi |->
        IF fields[p].currencyToGive = "BTC"
        THEN fields[p].amountToSend * SatoshiPerBTC
        ELSE fields[p].amountToReceive * SatoshiPerBTC,
     keyPairCompressedBTC |-> p,
     counterpartyKeyPairCompressedBTC |-> Other(p),
     timelockBTC |-> toBTC,
     timelockBTS |-> t,
     secret |-> fields[p].secret,
     checkAPIInterval |-> CheckAPIInterval]

parseUserInput(p) ==
    /\ pc[p] = "run"
    /\ StartMoment(p)
    \* line 213: BitsharesAPI.getInstance; 219, 221: account lookups
    /\ websocket' = [websocket EXCEPT ![p] = "open"]
    /\ \/ \* line 231: ECPair.fromWIF throws on a malformed key
          /\ fields[p].bitcoinPrivateKey = "malformed"
          /\ Throw(p, "fromWIF")
          /\ UNCHANGED <<timer, config>>
       \/ /\ fields[p].bitcoinPrivateKey # "malformed"
          /\ \E t \in TimelockBTSValues :
                /\ timer' = [timer EXCEPT ![p] = t]
                /\ config' = [config EXCEPT ![p] = ParsedConfig(p, t)]
          /\ Goto(p, "dispatch")
          /\ UNCHANGED err
    /\ UNCHANGED <<fields, loc, sleepLeft, btc, bts, height, faults>>

(******************************* ACCS.run **********************************)
\* Variant of FlowOf with the two accepter flows exchanged.
FlowOfExchanged(mode, type) ==
    IF type = "BTC" /\ mode = "proposer" THEN "proposeBTSForBTC"
    ELSE IF type = "BTS" /\ mode = "proposer" THEN "proposeBTCForBTS"
    ELSE IF type = "BTC" /\ mode = "accepter" THEN "takeBTCForBTS"
    ELSE IF type = "BTS" /\ mode = "accepter" THEN "takeBTSForBTC"
    ELSE ""

FlowOf(mode, type) ==
    IF type = "BTC" /\ mode = "proposer" THEN "proposeBTSForBTC"
    ELSE IF type = "BTS" /\ mode = "proposer" THEN "proposeBTCForBTS"
    ELSE IF type = "BTC" /\ mode = "accepter" THEN "takeBTSForBTC"
    ELSE IF type = "BTS" /\ mode = "accepter" THEN "takeBTCForBTS"
    ELSE ""

run(p) ==
    /\ pc[p] = "dispatch"
    /\ LET f == FlowOf(config[p].mode, config[p].type) IN
        /\ loc' = [loc EXCEPT ![p].flow = f]
        /\ Goto(p, IF f = "" THEN "done" ELSE f)
    /\ UNCHANGED <<fields, timer, websocket, config, err, sleepLeft, btc, bts, height, faults>>

(************************** the Bitcoin chain ******************************)
\* The funding transaction of BitcoinHTLC.create(): a P2WSH output of
\* amountAfterFees at `address`, mined in the current block or still
\* unconfirmed when create() returns.
FundBTC(address, amount, fee, confirmed) ==
    btc' = [state |-> "funded", address |-> Some(address),
            value |-> amount - fee,
            fundingHeight |-> IF confirmed THEN Some(height) ELSE None,
            preimage |-> ""]

\* The IF branch of the redeem script: OP_SHA256 <hash> OP_EQUALVERIFY and
\* the receiver's signature, on an unspent output.
RedeemableBTC(address, preimage) ==
    /\ btc.state = "funded"
    /\ btc.address = Some(address)
    /\ SHA256(preimage) = address.hash

\* The ELSE branch: <sequence> OP_CHECKSEQUENCEVERIFY and the sender's
\* signature; the refund transaction carries nSequence = sequence.
RefundableBTC(refundHex) ==
    /\ btc.state = "funded"
    /\ btc.address = Some(refundHex)
    /\ btc.fundingHeight # None
    /\ height >= btc.fundingHeight[1] + btc.address[1].sequence

\* getValueFromLastTransaction(address) / getPreimageFromLastTransaction(address)
FundedAt(address) == btc.state # "none" /\ btc.address = Some(address)
SpentWithPreimageAt(address) == btc.state = "redeemed" /\ btc.address = Some(address)

\* The horizon after which the refund branch of the funded output is open.
BTCDeadlineReached ==
    /\ btc.state # "none"
    /\ btc.fundingHeight # None
    /\ height >= btc.fundingHeight[1] + btc.address[1].sequence

NewBlock ==
    /\ btc.state # "none"
    /\ \/ btc.fundingHeight = None
       \/ /\ btc.fundingHeight # None
          /\ height < btc.fundingHeight[1] + btc.address[1].sequence + ExtraBlocks
    /\ height' = height + 1
    /\ btc' = IF btc.fundingHeight = None
              THEN [btc EXCEPT !.fundingHeight = Some(height + 1)]
              ELSE btc
    /\ UNCHANGED <<fields, timer, websocket, config, pc, loc, err, sleepLeft, bts, faults>>

(************************* the Bitshares chain *****************************)
\* BitsharesHTLC.create({amount, asset, time, hash, privateKey})
CreateBTS(from, to, amount, hash, time) ==
    bts' = [state |-> "active", from |-> from, to |-> to, amount |-> amount,
            hash |-> hash, time |-> time, ttl |-> time, preimage |-> ""]

\* BitsharesHTLC.redeem(amount, privateKey, secret) finds an HTLC to redeem
RedeemableBTS(from, to, amount, secret) ==
    /\ bts.state = "active"
    /\ bts.ttl > 0
    /\ bts.from = from /\ bts.to = to /\ bts.amount = amount
    /\ SHA256(secret.preimage) = bts.hash

\* BitsharesAPI.getID(from, to, amount, hash, time)
FoundID(from, to, amount, hash, time) ==
    /\ bts.state = "active"
    /\ bts.from = from /\ bts.to = to /\ bts.amount = amount
    /\ bts.hash = hash /\ bts.time = time

\* BitsharesAPI.getPreimageFromHTLC(from, to, hashHex)
RevealedBTS(from, to, hash) ==
    /\ bts.state = "redeemed"
    /\ bts.from = from /\ bts.to = to /\ bts.hash = hash

BTSDeadlineReached == bts.state # "none" /\ bts.ttl = 0

(******************************* time **************************************)
SleepLabels ==
    {"proposeBTSForBTC_sleep", "proposeBTCForBTS_sleep", "takeBTSForBTC_sleep1",
     "takeBTSForBTC_sleep2", "takeBTCForBTS_sleep1", "takeBTCForBTS_sleep2"}

\* The awaits of each flow.
LabelsOf(flow) ==
    CASE flow = "proposeBTSForBTC" ->
            {"proposeBTSForBTC", "proposeBTSForBTC_redeem",
             "proposeBTSForBTC_getLastBlock", "proposeBTSForBTC_sleep",
             "proposeBTSForBTC_pushTX"}
      [] flow = "proposeBTCForBTS" ->
            {"proposeBTCForBTS", "proposeBTCForBTS_getValue",
             "proposeBTCForBTS_sleep", "proposeBTCForBTS_redeem"}
      [] flow = "takeBTSForBTC" ->
            {"takeBTSForBTC", "takeBTSForBTC_getID", "takeBTSForBTC_sleep1",
             "takeBTSForBTC_create", "takeBTSForBTC_getLastBlock",
             "takeBTSForBTC_getPreimage", "takeBTSForBTC_sleep2",
             "takeBTSForBTC_pushTX", "takeBTSForBTC_redeem"}
      [] flow = "takeBTCForBTS" ->
            {"takeBTCForBTS", "takeBTCForBTS_getValue", "takeBTCForBTS_sleep1",
             "takeBTCForBTS_calculateFee", "takeBTCForBTS_create",
             "takeBTCForBTS_getPreimage", "takeBTCForBTS_sleep2",
             "takeBTCForBTS_redeem"}
      [] OTHER -> {}

Ended(p) == pc[p] \in {"done", "error"}
Running(p) == pc[p] \notin {"run", "done", "error"}

\* Time passes while every running flow sleeps: by the shortest of the
\* timers that run.  A Bitshares HTLC that reaches its expiry unredeemed
\* goes back to its sender.
Tick ==
    /\ \A p \in Parties : ~Running(p) \/ (pc[p] \in SleepLabels /\ sleepLeft[p] > 0)
    /\ LET timers == {sleepLeft[p] : p \in {q \in Parties : Running(q)}}
                        \cup (IF bts.ttl > 0 THEN {bts.ttl} ELSE {})
       IN /\ timers # {}
          /\ LET d == Min(timers) IN
              /\ sleepLeft' = [p \in Parties |->
                                 IF Running(p) THEN sleepLeft[p] - d ELSE 0]
              /\ bts' = IF bts.ttl > 0
                        THEN [bts EXCEPT
                                !.ttl = @ - d,
                                !.state = IF @ = "active" /\ bts.ttl = d
                                          THEN "refunded" ELSE @]
                        ELSE bts
    /\ UNCHANGED <<fields, timer, websocket, config, pc, loc, err, btc, height, faults>>

(************************ ACCS.proposeBTSForBTC ****************************)
\* lines 261-296: halve timelockBTS, create the Bitcoin HTLC, first loop test
proposeBTSForBTC_create(p) ==
    /\ pc[p] = "proposeBTSForBTC"
    /\ LET timelockBTS == MathRound(config[p].timelockBTS, 2)
           address == getP2WSH(config[p].secret.hash, config[p].timelockBTC,
                               config[p].keyPairCompressedBTC,
                               config[p].counterpartyKeyPairCompressedBTC)
       IN /\ config' = [config EXCEPT ![p].timelockBTS = timelockBTS]
          /\ \/ \E rate \in FeeRates, confirmed \in BOOLEAN :
                  LET funding == IF confirmed THEN Some(height) ELSE None
                      maxBlockHeight == Plus(funding, config[p].timelockBTC)
                  IN /\ FundBTC(address, config[p].amountSatoshi,
                                calculateFee(rate), confirmed)
                     /\ loc' = [loc EXCEPT ![p] =
                                  [@ EXCEPT !.refundHex = Some(address),
                                            !.fundingTxBlockHeight = funding,
                                            !.success = FALSE,
                                            !.maxBlockHeight = maxBlockHeight,
                                            !.currentBlockHeight = 0,
                                            !.exhausted = ~LessThan(0, maxBlockHeight)]]
                     /\ Goto(p, IF LessThan(0, maxBlockHeight)
                                THEN "proposeBTSForBTC_redeem"
                                ELSE "proposeBTSForBTC_pushTX")
                     /\ UNCHANGED err
                     /\ NoFault
             \/ /\ Fault
                /\ Throw(p, "create")
                /\ UNCHANGED <<loc, btc>>
    /\ UNCHANGED <<fields, timer, websocket, sleepLeft, bts, height>>

\* lines 297-303: htlcBTSProposer.redeem(...).then(s => success = s).catch(...)
proposeBTSForBTC_redeem(p) ==
    /\ pc[p] = "proposeBTSForBTC_redeem"
    /\ LET found == RedeemableBTS(config[p].counterpartyBitsharesAccountID,
                                  config[p].bitsharesAccountID,
                                  config[p].amountBTSMini, config[p].secret)
       IN \/ /\ found
             /\ bts' = [bts EXCEPT !.state = "redeemed",
                                   !.preimage = config[p].secret.preimage]
             /\ loc' = [loc EXCEPT ![p].success = TRUE]
             /\ NoFault
          \/ /\ ~found
             /\ loc' = [loc EXCEPT ![p].success = FALSE]
             /\ UNCHANGED bts
             /\ NoFault
          \/ /\ Fault
             /\ UNCHANGED <<loc, bts>>
    /\ Goto(p, "proposeBTSForBTC_getLastBlock")
    /\ UNCHANGED <<fields, timer, websocket, config, err, sleepLeft, btc, height>>

\* lines 305-307: currentBlockHeight = (await getLastBlock()).height; sleep
proposeBTSForBTC_getLastBlock(p) ==
    /\ pc[p] = "proposeBTSForBTC_getLastBlock"
    /\ \/ /\ loc' = [loc EXCEPT ![p].currentBlockHeight = height]
          /\ Sleep(p, "proposeBTSForBTC_sleep", config[p].checkAPIInterval)
          /\ UNCHANGED err
          /\ NoFault
       \/ /\ Fault
          /\ Throw(p, "getLastBlock")
          /\ UNCHANGED <<loc, sleepLeft>>
    /\ UNCHANGED <<fields, timer, websocket, config, btc, bts, height>>

\* Variant of proposeBTSForBTC_sleep that throws without pushing the refund.
proposeBTSForBTC_sleepNoRefund(p) ==
    /\ pc[p] = "proposeBTSForBTC_sleep"
    /\ sleepLeft[p] = 0
    /\ LET again == ~loc[p].success
                    /\ LessThan(loc[p].currentBlockHeight, loc[p].maxBlockHeight)
       IN /\ IF again THEN Goto(p, "proposeBTSForBTC_redeem") /\ UNCHANGED err
             ELSE IF ~loc[p].success THEN Throw(p, "No HTLC found")
             ELSE Goto(p, "done") /\ UNCHANGED err
          /\ loc' = [loc EXCEPT ![p].exhausted = ~again /\ ~loc[p].success]
    /\ UNCHANGED <<fields, timer, websocket, config, sleepLeft, btc, bts, height, faults>>

\* lines 296, 310, 317: the sleep is over; loop test, then the test of success
proposeBTSForBTC_sleep(p) ==
    /\ pc[p] = "proposeBTSForBTC_sleep"
    /\ sleepLeft[p] = 0
    /\ LET again == ~loc[p].success
                    /\ LessThan(loc[p].currentBlockHeight, loc[p].maxBlockHeight)
       IN /\ Goto(p, IF again THEN "proposeBTSForBTC_redeem"
                     ELSE IF ~loc[p].success THEN "proposeBTSForBTC_pushTX"
                     ELSE "done")
          /\ loc' = [loc EXCEPT ![p].exhausted = ~again /\ ~loc[p].success]
    /\ UNCHANGED <<fields, timer, websocket, config, err, sleepLeft, btc, bts, height, faults>>

\* lines 311-314: refundTXId = await pushTX(refundHex), then throw
proposeBTSForBTC_pushTX(p) ==
    /\ pc[p] = "proposeBTSForBTC_pushTX"
    /\ \/ /\ RefundableBTC(loc[p].refundHex[1])
          /\ btc' = [btc EXCEPT !.state = "refunded"]
          /\ loc' = [loc EXCEPT ![p] = [@ EXCEPT !.pushed = TRUE,
                                                 !.refundTXId = Some("txid")]]
          /\ Throw(p, "No HTLC found, refunded")
          /\ NoFault
       \/ /\ ~RefundableBTC(loc[p].refundHex[1])
          /\ loc' = [loc EXCEPT ![p].pushed = TRUE]
          /\ Throw(p, "No HTLC found, refunded")
          /\ UNCHANGED btc
          /\ NoFault
       \/ /\ ~RefundableBTC(loc[p].refundHex[1])
          /\ loc' = [loc EXCEPT ![p].pushed = TRUE]
          /\ Throw(p, "pushTX")
          /\ UNCHANGED btc
          /\ NoFault
       \/ /\ Fault
          /\ loc' = [loc EXCEPT ![p].pushed = TRUE]
          /\ Throw(p, "pushTX")
          /\ UNCHANGED btc
    /\ UNCHANGED <<fields, timer, websocket, config, sleepLeft, bts, height>>

(************************ ACCS.proposeBTCForBTS ****************************)
\* lines 326-364: halve timelockBTC, create the Bitshares HTLC, first loop test
proposeBTCForBTS_create(p) ==
    /\ pc[p] = "proposeBTCForBTS"
    /\ LET timelockBTC == MathRound(config[p].timelockBTC, 2)
           timeToWait == MathRound(config[p].timelockBTS, config[p].checkAPIInterval)
       IN /\ config' = [config EXCEPT ![p].timelockBTC = timelockBTC]
          /\ \/ /\ CreateBTS(config[p].bitsharesAccountID,
                             config[p].counterpartyBitsharesAccountID,
                             config[p].amountBTSMini, config[p].secret.hash,
                             config[p].timelockBTS)
                /\ loc' = [loc EXCEPT ![p] =
                             [@ EXCEPT !.p2wsh = Some(getP2WSH(
                                            config[p].secret.hash, timelockBTC,
                                            config[p].counterpartyKeyPairCompressedBTC,
                                            config[p].keyPairCompressedBTC)),
                                       !.timeToWait = timeToWait,
                                       !.txID = None]]
                /\ IF timeToWait > 0
                   THEN Goto(p, "proposeBTCForBTS_getValue") /\ UNCHANGED err
                   ELSE Throw(p, "No HTLC found")
                /\ NoFault
             \/ /\ Fault
                /\ Throw(p, "create")
                /\ UNCHANGED <<loc, bts>>
    /\ UNCHANGED <<fields, timer, websocket, sleepLeft, btc, height>>

\* lines 365-373: getValueFromLastTransaction(p2wsh.address).then(...).catch(...)
proposeBTCForBTS_getValue(p) ==
    /\ pc[p] = "proposeBTCForBTS_getValue"
    /\ \/ /\ FundedAt(loc[p].p2wsh[1])
          /\ loc' = [loc EXCEPT ![p].txID = Some("txid")]
          /\ NoFault
       \/ /\ ~FundedAt(loc[p].p2wsh[1])
          /\ UNCHANGED loc
          /\ NoFault
       \/ /\ Fault
          /\ UNCHANGED loc
    /\ Sleep(p, "proposeBTCForBTS_sleep", config[p].checkAPIInterval)
    /\ UNCHANGED <<fields, timer, websocket, config, err, btc, bts, height>>

\* proposeBTCForBTS with a refund broadcast on timeout, as in lines 310-311
proposeBTCForBTS_sleepPushTX(p) ==
    /\ pc[p] = "proposeBTCForBTS_sleep"
    /\ sleepLeft[p] = 0
    /\ LET timeToWait == loc[p].timeToWait - 1 IN
        /\ IF loc[p].txID = None /\ timeToWait > 0
           THEN /\ loc' = [loc EXCEPT ![p].timeToWait = timeToWait]
                /\ Goto(p, "proposeBTCForBTS_getValue") /\ UNCHANGED err
           ELSE IF loc[p].txID = None
           THEN /\ loc' = [loc EXCEPT ![p] = [@ EXCEPT !.timeToWait = timeToWait,
                                                       !.pushed = TRUE]]
                /\ Throw(p, "No HTLC found")
           ELSE /\ loc' = [loc EXCEPT ![p].timeToWait = timeToWait]
                /\ Goto(p, "proposeBTCForBTS_redeem") /\ UNCHANGED err
    /\ UNCHANGED <<fields, timer, websocket, config, sleepLeft, btc, bts, height, faults>>

\* lines 375-380: timeToWait--, loop test, then the test of txID
proposeBTCForBTS_sleep(p) ==
    /\ pc[p] = "proposeBTCForBTS_sleep"
    /\ sleepLeft[p] = 0
    /\ LET timeToWait == loc[p].timeToWait - 1 IN
        /\ loc' = [loc EXCEPT ![p].timeToWait = timeToWait]
        /\ IF loc[p].txID = None /\ timeToWait > 0
           THEN Goto(p, "proposeBTCForBTS_getValue") /\ UNCHANGED err
           ELSE IF loc[p].txID = None
           THEN Throw(p, "No HTLC found")
           ELSE Goto(p, "proposeBTCForBTS_redeem") /\ UNCHANGED err
    /\ UNCHANGED <<fields, timer, websocket, config, sleepLeft, btc, bts, height, faults>>

\* line 383: htlcBTCProposer.redeem(p2wsh, config.amountSatoshi, config.secret)
proposeBTCForBTS_redeem(p) ==
    /\ pc[p] = "proposeBTCForBTS_redeem"
    /\ LET valid == RedeemableBTC(loc[p].p2wsh[1], config[p].secret.preimage)
       IN \/ /\ valid
             /\ btc' = [btc EXCEPT !.state = "redeemed",
                                   !.preimage = config[p].secret.preimage]
             /\ Goto(p, "done")
             /\ UNCHANGED err
             /\ NoFault
          \/ /\ ~valid
             /\ Throw(p, "redeem")
             /\ UNCHANGED btc
             /\ NoFault
          \/ /\ Fault
             /\ Throw(p, "redeem")
             /\ UNCHANGED btc
    /\ UNCHANGED <<fields, timer, websocket, config, loc, sleepLeft, bts, height>>

(************************** ACCS.takeBTSForBTC *****************************)
\* Variant of takeBTSForBTC_begin that keeps the full timelockBTC.
takeBTSForBTC_beginFull(p) ==
    /\ pc[p] = "takeBTSForBTC"
    /\ loc' = [loc EXCEPT ![p] = [@ EXCEPT !.timeToWait = WaitBTS, !.id = ""]]
    /\ Goto(p, "takeBTSForBTC_getID")
    /\ websocket' = [websocket EXCEPT ![p] = "open"]
    /\ UNCHANGED <<fields, timer, config, err, sleepLeft, btc, bts, height, faults>>

\* lines 392-414: getInstance, halve timelockBTC, timeToWait = 300
takeBTSForBTC_begin(p) ==
    /\ pc[p] = "takeBTSForBTC"
    /\ config' = [config EXCEPT ![p].timelockBTC = MathRound(config[p].timelockBTC, 2)]
    /\ loc' = [loc EXCEPT ![p] = [@ EXCEPT !.timeToWait = WaitBTS, !.id = ""]]
    /\ Goto(p, "takeBTSForBTC_getID")
    /\ websocket' = [websocket EXCEPT ![p] = "open"]
    /\ UNCHANGED <<fields, timer, err, sleepLeft, btc, bts, height, faults>>

\* lines 415-427: websocket.getID(...).then(res => id = res).catch(...)
takeBTSForBTC_getID(p) ==
    /\ pc[p] = "takeBTSForBTC_getID"
    /\ LET found == FoundID(config[p].counterpartyBitsharesAccountID,
                            config[p].bitsharesAccountID, config[p].amountBTSMini,
                            config[p].secret.hash, config[p].timelockBTS)
       IN \/ /\ found
             /\ loc' = [loc EXCEPT ![p].id = "1.16.1"]
             /\ NoFault
          \/ /\ ~found
             /\ UNCHANGED loc
             /\ NoFault
          \/ /\ Fault
             /\ UNCHANGED loc
    /\ Sleep(p, "takeBTSForBTC_sleep1", config[p].checkAPIInterval)
    /\ UNCHANGED <<fields, timer, websocket, config, err, btc, bts, height>>

\* Variant of takeBTSForBTC_sleep1 whose countdown does not count.
takeBTSForBTC_sleep1NoCountdown(p) ==
    /\ pc[p] = "takeBTSForBTC_sleep1"
    /\ sleepLeft[p] = 0
    /\ LET timeToWait == loc[p].timeToWait
           again == loc[p].id = "" /\ timeToWait > 0
       IN
        /\ loc' = [loc EXCEPT ![p].timeToWait = IF again THEN timeToWait ELSE 0]
        /\ IF again
           THEN Goto(p, "takeBTSForBTC_getID") /\ UNCHANGED err
           ELSE IF loc[p].id = ""
           THEN Throw(p, "No HTLC found")
           ELSE Goto(p, "takeBTSForBTC_create") /\ UNCHANGED err
    /\ UNCHANGED <<fields, timer, websocket, config, sleepLeft, btc, bts, height, faults>>

\* takeBTSForBTC without the test of id of lines 433-435
takeBTSForBTC_sleep1NoTest(p) ==
    /\ pc[p] = "takeBTSForBTC_sleep1"
    /\ sleepLeft[p] = 0
    /\ LET timeToWait == loc[p].timeToWait - config[p].checkAPIInterval
           again == loc[p].id = "" /\ timeToWait > 0
       IN
        /\ loc' = [loc EXCEPT ![p].timeToWait = IF again THEN timeToWait ELSE 0]
        /\ Goto(p, IF again THEN "takeBTSForBTC_getID" ELSE "takeBTSForBTC_create")
    /\ UNCHANGED <<fields, timer, websocket, config, err, sleepLeft, btc, bts, height, faults>>

\* lines 429-435: timeToWait -= checkAPIInterval, loop test, then the test of id
takeBTSForBTC_sleep1(p) ==
    /\ pc[p] = "takeBTSForBTC_sleep1"
    /\ sleepLeft[p] = 0
    /\ LET timeToWait == loc[p].timeToWait - config[p].checkAPIInterval
           again == loc[p].id = "" /\ timeToWait > 0
       IN
        \* timeToWait is not read again once the loop is left
        /\ loc' = [loc EXCEPT ![p].timeToWait = IF again THEN timeToWait ELSE 0]
        /\ IF again
           THEN Goto(p, "takeBTSForBTC_getID") /\ UNCHANGED err
           ELSE IF loc[p].id = ""
           THEN Throw(p, "No HTLC found")
           ELSE Goto(p, "takeBTSForBTC_create") /\ UNCHANGED err
    /\ UNCHANGED <<fields, timer, websocket, config, sleepLeft, btc, bts, height, faults>>

\* lines 447-463: create the Bitcoin HTLC, first test of the second loop
takeBTSForBTC_create(p) ==
    /\ pc[p] = "takeBTSForBTC_create"
    /\ LET address == getP2WSH(config[p].secret.hash, config[p].timelockBTC,
                               config[p].keyPairCompressedBTC,
                               config[p].counterpartyKeyPairCompressedBTC)
       IN \/ \E rate \in FeeRates, confirmed \in BOOLEAN :
                LET funding == IF confirmed THEN Some(height) ELSE None
                    maxBlockHeight == Plus(funding, config[p].timelockBTC)
                IN /\ FundBTC(address, config[p].amountSatoshi,
                              calculateFee(rate), confirmed)
                   /\ loc' = [loc EXCEPT ![p] =
                                [@ EXCEPT !.refundHex = Some(address),
                                          !.fundingTxBlockHeight = funding,
                                          !.p2wsh = Some(address),
                                          !.preimage = "",
                                          !.maxBlockHeight = maxBlockHeight,
                                          !.currentBlockHeight = 0,
                                          !.exhausted = ~LessThan(0, maxBlockHeight)]]
                   /\ Goto(p, IF LessThan(0, maxBlockHeight)
                              THEN "takeBTSForBTC_getLastBlock"
                              ELSE "takeBTSForBTC_pushTX")
                   /\ UNCHANGED err
                   /\ NoFault
          \/ /\ Fault
             /\ Throw(p, "create")
             /\ UNCHANGED <<loc, btc>>
    /\ UNCHANGED <<fields, timer, websocket, config, sleepLeft, bts, height>>

\* line 464: currentBlockHeight = (await getLastBlock()).height
takeBTSForBTC_getLastBlock(p) ==
    /\ pc[p] = "takeBTSForBTC_getLastBlock"
    /\ \/ /\ loc' = [loc EXCEPT ![p].currentBlockHeight = height]
          /\ Goto(p, "takeBTSForBTC_getPreimage")
          /\ UNCHANGED err
          /\ NoFault
       \/ /\ Fault
          /\ Throw(p, "getLastBlock")
          /\ UNCHANGED loc
    /\ UNCHANGED <<fields, timer, websocket, config, sleepLeft, btc, bts, height>>

\* Variant of takeBTSForBTC_getPreimage that takes the witness item next to
\* the preimage.
takeBTSForBTC_getPreimageOther(p) ==
    /\ pc[p] = "takeBTSForBTC_getPreimage"
    /\ \/ /\ SpentWithPreimageAt(loc[p].p2wsh[1])
          /\ loc' = [loc EXCEPT ![p].preimage = "signature"]
          /\ Sleep(p, "takeBTSForBTC_sleep2", config[p].checkAPIInterval)
          /\ UNCHANGED err
          /\ NoFault
       \/ /\ ~SpentWithPreimageAt(loc[p].p2wsh[1])
          /\ Sleep(p, "takeBTSForBTC_sleep2", config[p].checkAPIInterval)
          /\ UNCHANGED <<loc, err>>
          /\ NoFault
       \/ /\ Fault
          /\ Throw(p, "getPreimageFromLastTransaction")
          /\ UNCHANGED <<loc, sleepLeft>>
    /\ UNCHANGED <<fields, timer, websocket, config, btc, bts, height>>

\* lines 466-471: getPreimageFromLastTransaction(p2wsh.address).then(...); sleep
\* The call resolves with null while the output is unspent; there is no catch.
takeBTSForBTC_getPreimage(p) ==
    /\ pc[p] = "takeBTSForBTC_getPreimage"
    /\ \/ /\ SpentWithPreimageAt(loc[p].p2wsh[1])
          /\ loc' = [loc EXCEPT ![p].preimage = btc.preimage]
          /\ Sleep(p, "takeBTSForBTC_sleep2", config[p].checkAPIInterval)
          /\ UNCHANGED err
          /\ NoFault
       \/ /\ ~SpentWithPreimageAt(loc[p].p2wsh[1])
          /\ Sleep(p, "takeBTSForBTC_sleep2", config[p].checkAPIInterval)
          /\ UNCHANGED <<loc, err>>
          /\ NoFault
       \/ /\ Fault
          /\ Throw(p, "getPreimageFromLastTransaction")
          /\ UNCHANGED <<loc, sleepLeft>>
    /\ UNCHANGED <<fields, timer, websocket, config, btc, bts, height>>

\* lines 463, 474, 484: loop test, then the test of preimageFromBlockchain
takeBTSForBTC_sleep2(p) ==
    /\ pc[p] = "takeBTSForBTC_sleep2"
    /\ sleepLeft[p] = 0
    /\ LET again == loc[p].preimage = ""
                    /\ LessThan(loc[p].currentBlockHeight, loc[p].maxBlockHeight)
       IN /\ Goto(p, IF again THEN "takeBTSForBTC_getLastBlock"
                     ELSE IF loc[p].preimage = "" THEN "takeBTSForBTC_pushTX"
                     ELSE "takeBTSForBTC_redeem")
          /\ loc' = [loc EXCEPT ![p].exhausted = ~again /\ loc[p].preimage = ""]
          /\ config' = IF ~again /\ loc[p].preimage # ""
                       THEN [config EXCEPT ![p].secret.preimage = loc[p].preimage]
                       ELSE config
    /\ UNCHANGED <<fields, timer, websocket, err, sleepLeft, btc, bts, height, faults>>

\* takeBTSForBTC going on to its redeem after the refund broadcast
takeBTSForBTC_pushTXThenRedeem(p) ==
    /\ pc[p] = "takeBTSForBTC_pushTX"
    /\ \/ /\ RefundableBTC(loc[p].refundHex[1])
          /\ btc' = [btc EXCEPT !.state = "refunded"]
          /\ loc' = [loc EXCEPT ![p] = [@ EXCEPT !.pushed = TRUE,
                                                 !.refundTXId = Some("txid")]]
       \/ /\ ~RefundableBTC(loc[p].refundHex[1])
          /\ loc' = [loc EXCEPT ![p].pushed = TRUE]
          /\ UNCHANGED btc
    /\ Goto(p, "takeBTSForBTC_redeem")
    /\ UNCHANGED <<fields, timer, websocket, config, err, sleepLeft, bts, height, faults>>

\* lines 475-481: refundTXId = await pushTX(refundHex), then throw
takeBTSForBTC_pushTX(p) ==
    /\ pc[p] = "takeBTSForBTC_pushTX"
    /\ \/ /\ RefundableBTC(loc[p].refundHex[1])
          /\ btc' = [btc EXCEPT !.state = "refunded"]
          /\ loc' = [loc EXCEPT ![p] = [@ EXCEPT !.pushed = TRUE,
                                                 !.refundTXId = Some("txid")]]
          /\ Throw(p, "HTLC was not redeemed in time, refunded")
          /\ NoFault
       \/ /\ ~RefundableBTC(loc[p].refundHex[1])
          /\ loc' = [loc EXCEPT ![p].pushed = TRUE]
          /\ Throw(p, "Could not push refundHex")
          /\ UNCHANGED btc
          /\ NoFault
       \/ /\ ~RefundableBTC(loc[p].refundHex[1])
          /\ loc' = [loc EXCEPT ![p].pushed = TRUE]
          /\ Throw(p, "pushTX")
          /\ UNCHANGED btc
          /\ NoFault
       \/ /\ Fault
          /\ loc' = [loc EXCEPT ![p].pushed = TRUE]
          /\ Throw(p, "pushTX")
          /\ UNCHANGED btc
    /\ UNCHANGED <<fields, timer, websocket, config, sleepLeft, bts, height>>

\* lines 492-496: success = await htlcBTSAccepter.redeem(...), test of success
takeBTSForBTC_redeem(p) ==
    /\ pc[p] = "takeBTSForBTC_redeem"
    /\ LET found == RedeemableBTS(config[p].counterpartyBitsharesAccountID,
                                  config[p].bitsharesAccountID,
                                  config[p].amountBTSMini, config[p].secret)
       IN \/ /\ found
             /\ bts' = [bts EXCEPT !.state = "redeemed",
                                   !.preimage = config[p].secret.preimage]
             /\ loc' = [loc EXCEPT ![p].success = TRUE]
             /\ Goto(p, "done")
             /\ UNCHANGED err
             /\ NoFault
          \/ /\ ~found
             /\ Throw(p, "Could not redeem Bitshares HTLC")
             /\ UNCHANGED <<loc, bts>>
             /\ NoFault
          \/ /\ Fault
             /\ Throw(p, "redeem")
             /\ UNCHANGED <<loc, bts>>
    /\ UNCHANGED <<fields, timer, websocket, config, sleepLeft, btc, height>>

(************************** ACCS.takeBTCForBTS *****************************)
\* takeBTCForBTS deriving the watched address from a halved timelockBTC
takeBTCForBTS_beginHalvedBTC(p) ==
    /\ pc[p] = "takeBTCForBTS"
    /\ config' = [config EXCEPT ![p].timelockBTC = MathRound(config[p].timelockBTC, 2)]
    /\ loc' = [loc EXCEPT ![p] =
                 [@ EXCEPT !.timeToWait = WaitBTC,
                           !.p2wsh = Some(getP2WSH(
                                config[p].secret.hash,
                                MathRound(config[p].timelockBTC, 2),
                                config[p].counterpartyKeyPairCompressedBTC,
                                config[p].keyPairCompressedBTC)),
                           !.txID = None,
                           !.value = None]]
    /\ Goto(p, "takeBTCForBTS_getValue")
    /\ websocket' = [websocket EXCEPT ![p] = "open"]
    /\ UNCHANGED <<fields, timer, err, sleepLeft, btc, bts, height, faults>>

\* lines 505-532: getInstance, halve timelockBTS, timeToWait = 1800, p2wsh
takeBTCForBTS_begin(p) ==
    /\ pc[p] = "takeBTCForBTS"
    /\ config' = [config EXCEPT ![p].timelockBTS = MathRound(config[p].timelockBTS, 2)]
    /\ loc' = [loc EXCEPT ![p] =
                 [@ EXCEPT !.timeToWait = WaitBTC,
                           !.p2wsh = Some(getP2WSH(
                                config[p].secret.hash, config[p].timelockBTC,
                                config[p].counterpartyKeyPairCompressedBTC,
                                config[p].keyPairCompressedBTC)),
                           !.txID = None,
                           !.value = None]]
    /\ Goto(p, "takeBTCForBTS_getValue")
    /\ websocket' = [websocket EXCEPT ![p] = "open"]
    /\ UNCHANGED <<fields, timer, err, sleepLeft, btc, bts, height, faults>>

\* lines 533-543: getValueFromLastTransaction(p2wsh.address).then(...).catch(...)
takeBTCForBTS_getValue(p) ==
    /\ pc[p] = "takeBTCForBTS_getValue"
    /\ \/ /\ FundedAt(loc[p].p2wsh[1])
          /\ loc' = [loc EXCEPT ![p] = [@ EXCEPT !.txID = Some("txid"),
                                                 !.value = Some(btc.value)]]
          /\ NoFault
       \/ /\ ~FundedAt(loc[p].p2wsh[1])
          /\ UNCHANGED loc
          /\ NoFault
       \/ /\ Fault
          /\ UNCHANGED loc
    /\ Sleep(p, "takeBTCForBTS_sleep1", config[p].checkAPIInterval)
    /\ UNCHANGED <<fields, timer, websocket, config, err, btc, bts, height>>

\* lines 545-550: timeToWait -= checkAPIInterval, loop test, test of timeToWait
takeBTCForBTS_sleep1(p) ==
    /\ pc[p] = "takeBTCForBTS_sleep1"
    /\ sleepLeft[p] = 0
    /\ LET timeToWait == loc[p].timeToWait - config[p].checkAPIInterval
           again == loc[p].txID = None /\ timeToWait > 0
       IN
        \* timeToWait is read for the last time by the test of line 548
        /\ loc' = [loc EXCEPT ![p].timeToWait = IF again THEN timeToWait ELSE 0]
        /\ IF again
           THEN Goto(p, "takeBTCForBTS_getValue") /\ UNCHANGED err
           ELSE IF timeToWait = 0
           THEN Throw(p, "No HTLC found")
           ELSE Goto(p, "takeBTCForBTS_calculateFee") /\ UNCHANGED err
    /\ UNCHANGED <<fields, timer, websocket, config, sleepLeft, btc, bts, height, faults>>

\* lines 553-557: fees = await calculateFee(); value < amountSatoshi - fees.max
takeBTCForBTS_calculateFee(p) ==
    /\ pc[p] = "takeBTCForBTS_calculateFee"
    /\ \E rate \in FeeRates :
        LET max == calculateFee(rate) IN
        /\ loc' = [loc EXCEPT ![p].feesMax = Some(max)]
        /\ IF loc[p].value[1] < config[p].amountSatoshi - max
           THEN Throw(p, "The amount of Satoshi sent is not sufficient")
           ELSE Goto(p, "takeBTCForBTS_create") /\ UNCHANGED err
    /\ UNCHANGED <<fields, timer, websocket, config, sleepLeft, btc, bts, height, faults>>

\* lines 568-582: create the Bitshares HTLC, first test of the second loop
takeBTCForBTS_create(p) ==
    /\ pc[p] = "takeBTCForBTS_create"
    /\ \/ /\ CreateBTS(config[p].bitsharesAccountID,
                       config[p].counterpartyBitsharesAccountID,
                       config[p].amountBTSMini, config[p].secret.hash,
                       config[p].timelockBTS)
          /\ loc' = [loc EXCEPT ![p] =
                       [@ EXCEPT !.timeToWait = config[p].timelockBTS,
                                 !.preimage = ""]]
          /\ IF config[p].timelockBTS > 0
             THEN Goto(p, "takeBTCForBTS_getPreimage") /\ UNCHANGED err
             ELSE Throw(p, "HTLC was not redeemed in time")
          /\ NoFault
       \/ /\ Fault
          /\ Throw(p, "create")
          /\ UNCHANGED <<loc, bts>>
    /\ UNCHANGED <<fields, timer, websocket, config, sleepLeft, btc, height>>

\* lines 583-594: websocket.getPreimageFromHTLC(...).then(...).catch(...); sleep
takeBTCForBTS_getPreimage(p) ==
    /\ pc[p] = "takeBTCForBTS_getPreimage"
    /\ LET found == RevealedBTS(config[p].bitsharesAccountID,
                                config[p].counterpartyBitsharesAccountID,
                                config[p].secret.hash)
       IN \/ /\ found
             /\ loc' = [loc EXCEPT ![p].preimage = bts.preimage]
             /\ NoFault
          \/ /\ ~found
             /\ UNCHANGED loc
             /\ NoFault
          \/ /\ Fault
             /\ UNCHANGED loc
    /\ Sleep(p, "takeBTCForBTS_sleep2", PreimagePollSleep)
    /\ UNCHANGED <<fields, timer, websocket, config, err, btc, bts, height>>

\* takeBTCForBTS without line 602: redeem with the secret as parsed
takeBTCForBTS_sleep2NoWrite(p) ==
    /\ pc[p] = "takeBTCForBTS_sleep2"
    /\ sleepLeft[p] = 0
    /\ LET timeToWait == loc[p].timeToWait - 1
           again == loc[p].preimage = "" /\ timeToWait > 0
       IN /\ loc' = [loc EXCEPT ![p].timeToWait = timeToWait]
          /\ IF again
             THEN Goto(p, "takeBTCForBTS_getPreimage") /\ UNCHANGED err
             ELSE IF loc[p].preimage = ""
             THEN Throw(p, "HTLC was not redeemed in time")
             ELSE Goto(p, "takeBTCForBTS_redeem") /\ UNCHANGED err
    /\ UNCHANGED <<fields, timer, websocket, config, sleepLeft, btc, bts, height, faults>>

\* lines 596-602: timeToWait--, loop test, then the test of preimage
takeBTCForBTS_sleep2(p) ==
    /\ pc[p] = "takeBTCForBTS_sleep2"
    /\ sleepLeft[p] = 0
    /\ LET timeToWait == loc[p].timeToWait - 1
           again == loc[p].preimage = "" /\ timeToWait > 0
       IN /\ loc' = [loc EXCEPT ![p].timeToWait = timeToWait]
          /\ IF again
             THEN Goto(p, "takeBTCForBTS_getPreimage") /\ UNCHANGED <<err, config>>
             ELSE IF loc[p].preimage = ""
             THEN Throw(p, "HTLC was not redeemed in time") /\ UNCHANGED config
             ELSE /\ config' = [config EXCEPT ![p].secret.preimage = loc[p].preimage]
                  /\ Goto(p, "takeBTCForBTS_redeem")
                  /\ UNCHANGED err
    /\ UNCHANGED <<fields, timer, websocket, sleepLeft, btc, bts, height, faults>>

\* line 609: htlcBTCAccepter.redeem(p2wsh, config.amountSatoshi, config.secret)
takeBTCForBTS_redeem(p) ==
    /\ pc[p] = "takeBTCForBTS_redeem"
    /\ LET valid == RedeemableBTC(loc[p].p2wsh[1], config[p].secret.preimage)
       IN \/ /\ valid
             /\ btc' = [btc EXCEPT !.state = "redeemed",
                                   !.preimage = config[p].secret.preimage]
             /\ Goto(p, "done")
             /\ UNCHANGED err
             /\ NoFault
          \/ /\ ~valid
             /\ Throw(p, "redeem")
             /\ UNCHANGED btc
             /\ NoFault
          \/ /\ Fault
             /\ Throw(p, "redeem")
             /\ UNCHANGED btc
    /\ UNCHANGED <<fields, timer, websocket, config, loc, sleepLeft, bts, height>>

\* One step of a run that has parsed its input.
Flow(p) ==
        \/ run(p)
        \/ proposeBTSForBTC_create(p)
        \/ proposeBTSForBTC_redeem(p)
        \/ proposeBTSForBTC_getLastBlock(p)
        \/ proposeBTSForBTC_sleep(p)
        \/ proposeBTSForBTC_pushTX(p)
        \/ proposeBTCForBTS_create(p)
        \/ proposeBTCForBTS_getValue(p)
        \/ proposeBTCForBTS_sleep(p)
        \/ proposeBTCForBTS_redeem(p)
        \/ takeBTSForBTC_begin(p)
        \/ takeBTSForBTC_getID(p)
        \/ takeBTSForBTC_sleep1(p)
        \/ takeBTSForBTC_create(p)
        \/ takeBTSForBTC_getLastBlock(p)
        \/ takeBTSForBTC_getPreimage(p)
        \/ takeBTSForBTC_sleep2(p)
        \/ takeBTSForBTC_pushTX(p)
        \/ takeBTSForBTC_redeem(p)
        \/ takeBTCForBTS_begin(p)
        \/ takeBTCForBTS_getValue(p)
        \/ takeBTCForBTS_sleep1(p)
        \/ takeBTCForBTS_calculateFee(p)
        \/ takeBTCForBTS_create(p)
        \/ takeBTCForBTS_getPreimage(p)
        \/ takeBTCForBTS_sleep2(p)
        \/ takeBTCForBTS_redeem(p)

Next ==
    \/ \E p \in Parties : parseUserInput(p) \/ Flow(p)
    \/ NewBlock
    \/ Tick

Spec == Init /\ [][Next]_vars

\* Every await of a started run settles, the timers fire, and the Bitcoin
\* chain keeps growing.
FairSpec ==
    /\ Spec
    /\ \A p \in Parties : WF_vars(Flow(p))
    /\ WF_vars(Tick)
    /\ WF_vars(NewBlock)


(***************************************************************************)
(* Properties                                                              *)
(***************************************************************************)

\* C1: once both flows have ended and both timelocks have expired, either
\* both HTLCs were redeemed by their receivers or both went back to their
\* senders: no run ends with one HTLC redeemed and the other one not.
C1_Atomicity ==
    ( /\ \A p \in Parties : Ended(p)
      /\ bts.state = "none" \/ bts.ttl = 0
      /\ btc.state = "none" \/ BTCDeadlineReached )
    => ((btc.state = "redeemed") <=> (bts.state = "redeemed"))

\* C2: the HTLC of the party acting first carries the full timelock and the
\* HTLC of the party acting second half of it (Math.round of the half): the
\* proposer's Bitcoin HTLC has sequence timelockBTC and the accepter's
\* Bitshares HTLC time timelockBTS/2; the proposer's Bitshares HTLC has
\* time timelockBTS and the accepter's Bitcoin HTLC sequence timelockBTC/2.
C2_AsymmetricTimelocks ==
    /\ btc.state # "none" =>
         btc.address[1].sequence =
            IF fields[btc.address[1].sender].mode = "proposer"
            THEN TimerBlocks ELSE MathRound(TimerBlocks, 2)
    /\ bts.state # "none" =>
         bts.time = IF fields[bts.from].mode = "proposer"
                    THEN timer[bts.from] ELSE MathRound(timer[bts.from], 2)

\* Both HTLCs of the proposer-gives-BTS pairing exist: full Bitshares time,
\* halved Bitcoin sequence.
C2_Witness ==
    /\ bts.state # "none" /\ bts.from = "P" /\ bts.time = timer["P"]
    /\ btc.state # "none" /\ btc.address[1].sender = "A"
    /\ 2 * btc.address[1].sequence = TimerBlocks

\* C3: once both HTLCs exist, the refund deadline of the HTLC funded second
\* is reached before the refund deadline of the HTLC funded first, whatever
\* the accepter's delay and the arrival of Bitcoin blocks.
C3_SecondDeadlineFirst ==
    (btc.state # "none" /\ bts.state # "none") =>
        IF fields["P"].currencyToGive = "BTC"
        THEN BTCDeadlineReached => BTSDeadlineReached
        ELSE BTSDeadlineReached => BTCDeadlineReached

\* C4: run executes the one flow chosen by (mode, currencyToGive), and the
\* party is the sender of the Bitcoin HTLC and the receiver of the Bitshares
\* HTLC exactly when it gives BTC, the reverse when it gives BTS.
C4_Dispatch ==
    /\ \A p \in Parties :
        ( /\ fields[p].currencyToGive \in {"BTC", "BTS"}
          /\ (Running(p) /\ pc[p] # "dispatch") \/ (Ended(p) /\ err[p].at # "run") ) =>
            /\ loc[p].flow =
                 CASE fields[p].mode = "proposer" /\ fields[p].currencyToGive = "BTC"
                        -> "proposeBTSForBTC"
                   [] fields[p].mode = "proposer" /\ fields[p].currencyToGive = "BTS"
                        -> "proposeBTCForBTS"
                   [] fields[p].mode = "accepter" /\ fields[p].currencyToGive = "BTC"
                        -> "takeBTSForBTC"
                   [] fields[p].mode = "accepter" /\ fields[p].currencyToGive = "BTS"
                        -> "takeBTCForBTS"
            /\ Running(p) => pc[p] \in LabelsOf(loc[p].flow)
    /\ btc.state # "none" =>
         /\ fields[btc.address[1].sender].currencyToGive = "BTC"
         /\ fields[btc.address[1].receiver].currencyToGive = "BTS"
    /\ bts.state # "none" =>
         /\ fields[bts.from].currencyToGive = "BTS"
         /\ fields[bts.to].currencyToGive = "BTC"

\* Both flows of the proposer-gives-BTC pairing run and both HTLCs exist.
C4_Witness ==
    /\ loc["P"].flow = "proposeBTSForBTC" /\ Running("P")
    /\ loc["A"].flow = "takeBTCForBTS" /\ Running("A")
    /\ btc.state = "funded" /\ btc.address[1].sender = "P"
    /\ bts.state = "active" /\ bts.from = "A"

\* C5: takeBTCForBTS aborts without creating the Bitshares HTLC when the
\* value observed is below amountSatoshi - fee.max, and goes on to create
\* it when the value is at least amountSatoshi - fee.max.
C5_ValueCheck ==
    \A p \in Parties :
        (loc[p].flow = "takeBTCForBTS" /\ loc[p].value # None) =>
            /\ (loc[p].feesMax # None
                /\ loc[p].value[1] < config[p].amountSatoshi - loc[p].feesMax[1])
               => (pc[p] = "error" /\ bts.state = "none")
            /\ (pc[p] = "error"
                /\ \A rate \in FeeRates :
                     loc[p].value[1] >= config[p].amountSatoshi - calculateFee(rate))
               => err[p].at \notin {"takeBTCForBTS_sleep1",
                                    "takeBTCForBTS_calculateFee"}


\* C6: in proposeBTSForBTC and takeBTSForBTC, when polling has ended without
\* the counterparty having acted, the flow ends with an error and has
\* called pushTX with the refund hex of create() before that.
C6_RefundAfterPolling ==
    \A p \in Parties :
        ( /\ loc[p].flow \in {"proposeBTSForBTC", "takeBTSForBTC"}
          /\ loc[p].exhausted
          /\ Ended(p) )
        => (pc[p] = "error" /\ loc[p].pushed /\ loc[p].refundHex # None)

\* takeBTSForBTC polled to the horizon, saw no spend, and the refund it
\* pushed was mined.
C6_Witness ==
    \E p \in Parties :
        /\ loc[p].flow = "takeBTSForBTC"
        /\ pc[p] = "error" /\ loc[p].exhausted /\ loc[p].pushed
        /\ loc[p].refundTXId # None
        /\ btc.state = "refunded"

\* C7: the refund hex is pushed only after the flow has observed a height
\* currentBlockHeight >= fundingTxBlockHeight + timelockBTC.
C7_RefundNotBeforeHorizon ==
    \A p \in Parties :
        loc[p].pushed =>
            /\ loc[p].fundingTxBlockHeight # None
            /\ loc[p].currentBlockHeight >=
                 loc[p].fundingTxBlockHeight[1] + loc[p].refundHex[1].sequence

\* C8: no flow ends on the failure of a chain-adapter call made inside one
\* of its polling loops.
C8_PollingFailuresSwallowed ==
    \A p \in Parties :
        pc[p] = "error" =>
            err[p].at \notin
                {"proposeBTSForBTC_redeem", "proposeBTSForBTC_getLastBlock",
                 "proposeBTCForBTS_getValue",
                 "takeBTSForBTC_getID", "takeBTSForBTC_getLastBlock",
                 "takeBTSForBTC_getPreimage",
                 "takeBTCForBTS_getValue", "takeBTCForBTS_getPreimage"}

\* C9: a flow that ends with an error after its create() funded the Bitcoin
\* HTLC has called pushTX with the refund hex, and the error it ends with
\* is not the failure of that call.
C9_RefundBeforeError ==
    \A p \in Parties :
        (pc[p] = "error" /\ loc[p].refundHex # None) =>
            /\ loc[p].pushed
            /\ err[p].kind # "pushTX"

\* C10: the preimage the accepter writes into config.secret.preimage and
\* redeems with is the one the proposer revealed by redeeming the
\* accepter's HTLC; when the swap completes both chains show that preimage.
C10_SamePreimage ==
    \A p \in Parties :
        ( /\ fields[p].mode = "accepter"
          /\ pc[p] \in {"takeBTSForBTC_redeem", "takeBTCForBTS_redeem", "done"} )
        => LET revealed == IF fields[p].currencyToGive = "BTC"
                           THEN btc.preimage ELSE bts.preimage
           IN /\ revealed = fields[Other(p)].secret.preimage
              /\ config[p].secret.preimage = revealed
              /\ pc[p] = "done" =>
                    /\ btc.state = "redeemed" /\ bts.state = "redeemed"
                    /\ btc.preimage = bts.preimage

\* Both flows returned: the accepter holds the proposer's preimage and
\* both HTLCs were redeemed with it.
C10_Witness ==
    /\ pc["P"] = "done" /\ pc["A"] = "done"
    /\ config["A"].secret.preimage = ProposerSecret.preimage
    /\ btc.state = "redeemed" /\ bts.state = "redeemed"
    /\ btc.preimage = ProposerSecret.preimage
    /\ bts.preimage = ProposerSecret.preimage


\* C11: an accepter flow that is still running when the proposer's redeem
\* of the accepter's HTLC is on chain does not end with an error: it goes
\* on to extract the preimage and to redeem the other leg.
C11_RevealIsUsed ==
    [][\A p \in Parties :
        ( /\ fields[p].mode = "accepter"
          /\ Running(p)
          /\ IF fields[p].currencyToGive = "BTC"
             THEN btc.state = "redeemed" /\ btc.address[1].sender = p
             ELSE bts.state = "redeemed" /\ bts.from = p )
        => pc'[p] # "error"]_vars


\* C12: when a swap in which some polling loop was exhausted is over (both
\* flows ended, the Bitshares HTLC past its expiry), either both HTLCs are
\* back with their senders, or the Bitcoin HTLC alone is still locked,
\* waiting for its sender's pre-signed refund.
C12_TimeoutEndStates ==
    ( /\ \A p \in Parties : Ended(p)
      /\ bts.state = "none" \/ bts.ttl = 0
      /\ \E p \in Parties :
            /\ pc[p] = "error"
            /\ \/ loc[p].exhausted
               \/ err[p].at \in {"proposeBTCForBTS_sleep", "takeBTSForBTC_sleep1",
                                 "takeBTCForBTS_sleep1", "takeBTCForBTS_sleep2"} )
    => /\ bts.state \in {"none", "refunded"}
       /\ btc.state \in {"none", "refunded", "funded"}


\* C13: no step of a flow changes a field of the config that
\* parseUserInput built.
C13_ConfigImmutable ==
    [][\A p \in Parties :
        (Running(p) /\ pc[p] # "dispatch") => config'[p] = config[p]]_vars


\* C14: when run has ended, by completion or by an error, the connection
\* it acquired through BitsharesAPI.getInstance is closed.
C14_WebsocketClosed ==
    \A p \in Parties : Ended(p) => websocket[p] # "open"


\* C15: every flow terminates: a run that has started ends, in completion
\* or with an error; no polling loop runs forever.
C15_Termination ==
    \A p \in Parties : (pc[p] # "run") ~> Ended(p)

\* proposeBTSForBTC polled up to the block-height horizon and ended with
\* its refund mined.
C15_Witness ==
    \E p \in Parties :
        /\ loc[p].flow = "proposeBTSForBTC"
        /\ pc[p] = "error" /\ loc[p].exhausted
        /\ loc[p].currentBlockHeight > StartHeight
        /\ btc.state = "refunded"


\* C16: a run given a malformed key ends with an input error raised by
\* parseUserInput before any chain I/O: no Bitshares connection was opened.
C16_FailFast ==
    \A p \in Parties :
        (fields[p].bitcoinPrivateKey = "malformed" /\ pc[p] # "run") =>
            /\ pc[p] = "error" /\ err[p].at = "run"
            /\ websocket[p] = "none"


\* the thrown messages that interpolate ${refundHex}: only the one of line 477
HexInMessage(kind) == kind = "Could not push refundHex"

\* C17: in proposeBTSForBTC and takeBTSForBTC, an error thrown after a
\* refund broadcast that produced no transaction ID carries the refund hex.
C17_RefundHexInError ==
    \A p \in Parties :
        ( /\ pc[p] = "error"
          /\ err[p].at \in {"proposeBTSForBTC_pushTX", "takeBTSForBTC_pushTX"}
          /\ loc[p].refundTXId = None )
        => HexInMessage(err[p].kind)


\* C18: every sleep a seconds-bounded polling loop begins (the loop of
\* proposeBTCForBTS, the first loop of takeBTSForBTC, both loops of
\* takeBTCForBTS) lasts checkAPIInterval seconds.
C18_PollPerInterval ==
    [][\A p \in Parties :
        ( /\ pc'[p] \in {"proposeBTCForBTS_sleep", "takeBTSForBTC_sleep1",
                         "takeBTCForBTS_sleep1", "takeBTCForBTS_sleep2"}
          /\ pc[p] # pc'[p] )
        => sleepLeft'[p] = config[p].checkAPIInterval]_vars


\* the labels at which a flow invokes redeem, and those of a party whose
\* run has passed the call
AtRedeem(p, labels) ==
    \/ pc[p] \in labels
    \/ pc[p] = "error" /\ err[p].at \in labels
    \/ pc[p] = "done" /\ loc[p].flow # ""

\* C19: an accepter invokes redeem only with config.secret.preimage holding
\* the preimage it observed on the other chain; a proposer invokes redeem
\* only after its own HTLC has been created.
C19_RedeemOrder ==
    \A p \in Parties :
        /\ ( /\ fields[p].mode = "accepter"
             /\ AtRedeem(p, {"takeBTSForBTC_redeem", "takeBTCForBTS_redeem"}) )
           => /\ config[p].secret.preimage # ""
              /\ config[p].secret.preimage = loc[p].preimage
              /\ config[p].secret.preimage =
                    IF loc[p].flow = "takeBTSForBTC"
                    THEN btc.preimage ELSE bts.preimage
        /\ ( /\ fields[p].mode = "proposer"
             /\ AtRedeem(p, {"proposeBTSForBTC_redeem", "proposeBTCForBTS_redeem"}) )
           => IF loc[p].flow = "proposeBTSForBTC"
              THEN btc.state # "none" /\ btc.address[1].sender = p
              ELSE bts.state # "none" /\ bts.from = p

C19_Witness ==
    /\ loc["A"].flow = "takeBTCForBTS" /\ pc["A"] = "done"
    /\ loc["P"].flow = "proposeBTSForBTC" /\ pc["P"] = "done"
    /\ btc.state = "redeemed" /\ bts.state = "redeemed"


\* the HTLC party p has created on the chain of the currency it gives
OwnHTLC(p) ==
    IF fields[p].currencyToGive = "BTC"
    THEN btc.state # "none" /\ btc.address[1].sender = p
    ELSE bts.state # "none" /\ bts.from = p

\* C20: an accepter has created its HTLC only if it has observed the
\* proposer's HTLC, which is then on chain; an accepter whose wait for the
\* proposer's HTLC ended with an error has created no HTLC.
C20_AccepterCreatesSecond ==
    \A p \in Parties :
        fields[p].mode = "accepter" =>
            /\ OwnHTLC(p) =>
                /\ IF loc[p].flow = "takeBTSForBTC"
                   THEN loc[p].id # "" ELSE loc[p].txID # None
                /\ OwnHTLC(Other(p))
            /\ ( /\ pc[p] = "error"
                 /\ err[p].at \in {"takeBTSForBTC_sleep1", "takeBTCForBTS_sleep1"} )
               => ~OwnHTLC(p)

C20_Witness ==
    /\ fields["A"].mode = "accepter"
    /\ loc["A"].flow = "takeBTSForBTC" /\ loc["A"].id # ""
    /\ btc.state = "funded" /\ btc.address[1].sender = "A"
    /\ bts.state = "active" /\ bts.from = "P"


\* C21: a Bitshares redeem call that returns false (no matching HTLC to
\* redeem, no transport failure) does not end the flow with an error, in
\* the redeem loop of proposeBTSForBTC and in the redeem of takeBTSForBTC.
C21_FalseIsNotYetFound ==
    [][\A p \in Parties :
        ( /\ pc[p] \in {"proposeBTSForBTC_redeem", "takeBTSForBTC_redeem"}
          /\ pc'[p] # pc[p]
          /\ faults' = faults
          /\ ~RedeemableBTS(config[p].counterpartyBitsharesAccountID,
                            config[p].bitsharesAccountID,
                            config[p].amountBTSMini, config[p].secret) )
        => pc'[p] # "error"]_vars


\* C22: no step of proposeBTCForBTS or takeBTCForBTS broadcasts a Bitcoin
\* refund, and the step in which one of them times out only raises the
\* error: both HTLCs are left as they are.
C22_ReceiverNeverRefunds ==
    [][\A p \in Parties :
        ( /\ loc[p].flow \in {"proposeBTCForBTS", "takeBTCForBTS"}
          /\ pc'[p] # pc[p] )
        => /\ ~loc'[p].pushed /\ loc'[p].refundHex = None
           /\ btc'.state = "refunded" => btc.state = "refunded"
           /\ ( /\ pc'[p] = "error"
                /\ pc[p] \in {"proposeBTCForBTS_sleep", "takeBTCForBTS_sleep1",
                              "takeBTCForBTS_sleep2"} )
              => btc' = btc /\ bts' = bts]_vars

C22_Witness ==
    /\ pc["P"] = "error" /\ err["P"].at = "proposeBTCForBTS_sleep"
    /\ bts.from = "P" /\ bts.state = "active"
    /\ btc.state = "funded" /\ btc.address[1].sender = "A"


\* C23: takeBTCForBTS aborts with "No HTLC found" exactly when no poll of
\* its first loop found a funding transaction, the last poll included, and
\* it reaches the amount check only with a value.
C23_LastPollCounts ==
    \A p \in Parties :
        /\ (pc[p] = "error" /\ err[p].at = "takeBTCForBTS_sleep1")
            => loc[p].txID = None
        /\ pc[p] = "takeBTCForBTS_calculateFee"
            => loc[p].txID # None /\ loc[p].value # None


\* the two parties were started from mirrored inputs: same hash, amounts
\* and timelocks, each the other's counterparty
Mirrored(p, q) ==
    /\ config[p] # NoConfig /\ config[q] # NoConfig
    /\ timer[p] = timer[q]
    /\ config[p].secret.hash = config[q].secret.hash
    /\ config[p].amountBTSMini = config[q].amountBTSMini
    /\ config[p].amountSatoshi = config[q].amountSatoshi
    /\ config[p].counterpartyKeyPairCompressedBTC = config[q].keyPairCompressedBTC
    /\ config[q].counterpartyKeyPairCompressedBTC = config[p].keyPairCompressedBTC
    /\ config[p].counterpartyBitsharesAccountID = config[q].bitsharesAccountID
    /\ config[q].counterpartyBitsharesAccountID = config[p].bitsharesAccountID

\* C24: for mirrored parties, the P2WSH the Bitcoin receiver watches is the
\* one the Bitcoin sender funded, and the tuple takeBTSForBTC passes to
\* getID is the one proposeBTCForBTS created its Bitshares HTLC with.
C24_WatchedIsCreated ==
    \A p \in Parties :
        LET q == Other(p) IN
        Mirrored(p, q) =>
            /\ ( /\ loc[p].flow \in {"proposeBTCForBTS", "takeBTCForBTS"}
                 /\ loc[p].p2wsh # None
                 /\ btc.state # "none" )
               => loc[p].p2wsh[1] = btc.address[1]
            /\ ( /\ loc[p].flow = "takeBTSForBTC"
                 /\ pc[p] # "takeBTSForBTC"
                 /\ bts.state # "none" )
               => <<config[p].counterpartyBitsharesAccountID,
                    config[p].bitsharesAccountID, config[p].amountBTSMini,
                    config[p].secret.hash, config[p].timelockBTS>>
                  = <<bts.from, bts.to, bts.amount, bts.hash, bts.time>>

C24_Witness ==
    /\ Mirrored("A", "P")
    /\ loc["A"].flow = "takeBTCForBTS" /\ loc["A"].txID # None
    /\ loc["P"].flow = "proposeBTSForBTC" /\ btc.address[1].sender = "P"
    /\ loc["A"].p2wsh = btc.address


\* party p has redeemed (proposeBTSForBTC: redeem returned true) or holds
\* the preimage to redeem with (takeBTSForBTC: extracted from a spend)
RedeemSide(p) ==
    \/ loc[p].success
    \/ loc[p].flow = "takeBTSForBTC" /\ loc[p].preimage # ""

\* C25: in proposeBTSForBTC and takeBTSForBTC a run that is on its redeem
\* side has not broadcast the refund hex, and a run that has broadcast it
\* has ended with an error without a redeem.
C25_RedeemXorRefund ==
    \A p \in Parties :
        loc[p].flow \in {"proposeBTSForBTC", "takeBTSForBTC"} =>
            /\ RedeemSide(p) => ~loc[p].pushed /\ pc[p] # loc[p].flow \o "_pushTX"
            /\ loc[p].pushed => pc[p] = "error" /\ ~RedeemSide(p)

C25_Witness ==
    /\ loc["A"].flow = "takeBTSForBTC" /\ loc["A"].pushed
    /\ loc["A"].refundTXId # None /\ btc.state = "refunded"
    /\ bts.state # "redeemed"


\* C26: a proposeBTSForBTC or takeBTSForBTC whose funding transaction had
\* no height after create() has gone through its polling loop at least
\* once (it has read a block height) before it broadcasts the refund.
C26_PollBeforeRefund ==
    \A p \in Parties :
        ( /\ loc[p].flow \in {"proposeBTSForBTC", "takeBTSForBTC"}
          /\ loc[p].refundHex # None
          /\ loc[p].fundingTxBlockHeight = None
          /\ \/ loc[p].pushed
             \/ pc[p] \in {"proposeBTSForBTC_pushTX", "takeBTSForBTC_pushTX"} )
        => loc[p].currentBlockHeight >= StartHeight


\* party p has compared the value it observed with amountSatoshi - fees.max
\* (lines 553-557) and found it sufficient
ValueChecked(p) ==
    /\ loc[p].value # None /\ loc[p].feesMax # None
    /\ loc[p].value[1] >= config[p].amountSatoshi - loc[p].feesMax[1]

\* C27: takeBTCForBTS has checked the funded value before it creates its
\* Bitshares HTLC, and proposeBTCForBTS has checked it before it redeems
\* the Bitcoin HTLC.
C27_ValueCheckedBeforeCommit ==
    \A p \in Parties :
        /\ ( /\ loc[p].flow = "takeBTCForBTS"
             /\ pc[p] = "takeBTCForBTS_create" \/ OwnHTLC(p) )
           => ValueChecked(p)
        /\ ( /\ loc[p].flow = "proposeBTCForBTS"
             /\ AtRedeem(p, {"proposeBTCForBTS_redeem"}) )
           => ValueChecked(p)


\* C28: a run given a (mode, currencyToGive) pair outside the four
\* supported combinations ends with an error and has created no HTLC.
C28_UnsupportedPairFails ==
    \A p \in Parties :
        ( /\ FlowOf(fields[p].mode, fields[p].currencyToGive) = ""
          /\ Ended(p) )
        => pc[p] = "error" /\ ~OwnHTLC(p)

=============================================================================
